---- MODULE Spec2Model ----
(***************************************************************************)
(* Model of the analytics core of Portfolio-Analytics                      *)
(* (src/portfolio_metrics.py).                                             *)
(*                                                                         *)
(* A pandas DataFrame is a record [index, columns, data] with data[c] the  *)
(* column of ticker c as a sequence of cells, index the sequence of dates  *)
(* (day ordinals) and columns the sequence of tickers.  A float64 cell is  *)
(* a record [k, n, d]: the exact rational n/d (k = "num"), NaN (k = "nan") *)
(* or a signed infinity (k = "inf", n = +1 / -1).  Arithmetic is exact, so *)
(* the model speaks of IEEE results only up to rounding.  Values that are  *)
(* a square root of a rational (volatility, Sharpe ratio, correlation) are *)
(* kept as sign * sqrt(n/d) (k = "num", s the sign).                       *)
(*                                                                         *)
(* The pandas operations the source calls (pct_change, dropna, cumprod,    *)
(* expanding().max(), mean, var, cov, quantile, corr, pivot, index lookup) *)
(* are modelled by what pandas does, NaN handling and raised exceptions    *)
(* included.  No pandas version is pinned by the repository, so the        *)
(* default fill_method of pct_change is a choice of the build.             *)
(***************************************************************************)
EXTENDS Integers, Sequences, FiniteSets, TLC

VARIABLES
    fill_method,   \* default of DataFrame.pct_change in the installed pandas
    stock_data,    \* the rows (Ticker, Date, Close) of the database table
    prices_df,     \* the Price Panel handed to the core
    returns_df,    \* a Returns Panel handed to a metric function
    market_returns,\* the benchmark argument: None or a series
    start_date,    \* the caller-supplied inception date
    request,       \* ticker_list and end_date of a facade call in progress
    op,            \* the call whose result is held ("idle" when none is)
    result,        \* what that operation returned or raised
    rebalance,     \* the rebalance label of a turnover call
    calls,         \* the calls that operation made to its collaborators, in order
    cache_file     \* the forecast cache file the launcher looks at

\* what the functions of the core neither read nor write
context == <<rebalance, calls, cache_file>>

inputs == <<context, fill_method, stock_data, prices_df, returns_df, market_returns, start_date, request>>
vars == <<fill_method, stock_data, prices_df, returns_df, market_returns, start_date, request, op, result,
          rebalance, calls, cache_file>>

----------------------------------------------------------------------------
(* Bounds of the model *)
MaxRows == 3
MaxPrice == 2

----------------------------------------------------------------------------
(* float64 values, exact *)

Abs(x) == IF x < 0 THEN -x ELSE x

Sign(x) == IF x < 0 THEN -1 ELSE IF x = 0 THEN 0 ELSE 1

RECURSIVE GCD(_, _)
GCD(a, b) == IF b = 0 THEN a ELSE GCD(b, a % b)

NaN == [k |-> "nan", n |-> 0, d |-> 1]
Inf(s) == [k |-> "inf", n |-> s, d |-> 1]

Rat(n, d) ==
    LET g == GCD(Abs(n), d)
    IN  [k |-> "num", n |-> n \div g, d |-> d \div g]

Int2F(i) == Rat(i, 1)

IsNum(x) == x.k = "num"
IsNaN(x) == x.k = "nan"
isna(x) == x.k = "nan"

FNeg(a) == IF IsNaN(a) THEN NaN ELSE [a EXCEPT !.n = -a.n]

FAdd(a, b) ==
    IF IsNaN(a) \/ IsNaN(b) THEN NaN
    ELSE IF a.k = "inf" /\ b.k = "inf" THEN (IF a.n = b.n THEN a ELSE NaN)
    ELSE IF a.k = "inf" THEN a
    ELSE IF b.k = "inf" THEN b
    ELSE LET g == GCD(a.d, b.d)
         IN  Rat(a.n * (b.d \div g) + b.n * (a.d \div g), a.d * (b.d \div g))

FSub(a, b) == FAdd(a, FNeg(b))

FMul(a, b) ==
    IF IsNaN(a) \/ IsNaN(b) THEN NaN
    ELSE IF a.k = "inf" \/ b.k = "inf"
         THEN (IF a.n = 0 \/ b.n = 0 THEN NaN ELSE Inf(Sign(a.n) * Sign(b.n)))
    ELSE LET g1 == GCD(Abs(a.n), b.d)
             g2 == GCD(Abs(b.n), a.d)
         IN  Rat((a.n \div g1) * (b.n \div g2), (a.d \div g2) * (b.d \div g1))

\* IEEE division: x/0 is a signed infinity, 0/0 is NaN; numpy warns, never raises
FDiv(a, b) ==
    IF IsNaN(a) \/ IsNaN(b) THEN NaN
    ELSE IF a.k = "inf" THEN (IF b.k = "inf" THEN NaN
                              ELSE Inf(a.n * (IF b.n < 0 THEN -1 ELSE 1)))
    ELSE IF b.k = "inf" THEN Int2F(0)
    ELSE IF b.n = 0 THEN (IF a.n = 0 THEN NaN ELSE Inf(Sign(a.n)))
    ELSE FMul(a, Rat(Sign(b.n) * b.d, Abs(b.n)))

\* comparisons with NaN are False
FLt(a, b) ==
    /\ ~IsNaN(a) /\ ~IsNaN(b)
    /\ IF a.k = "inf" \/ b.k = "inf"
       THEN (IF a.k = "inf" /\ b.k = "inf" THEN a.n < b.n
             ELSE IF a.k = "inf" THEN a.n < 0 ELSE b.n > 0)
       ELSE a.n * b.d < b.n * a.d

FGt(a, b) == FLt(b, a)
FLe(a, b) == ~IsNaN(a) /\ ~IsNaN(b) /\ ~FLt(b, a)
FGe(a, b) == FLe(b, a)

\* sign * sqrt(q) for a rational q >= 0; NaN and infinities pass through
Surd(s, q) ==
    IF ~IsNum(q) THEN [k |-> q.k, s |-> q.n, n |-> 0, d |-> 1]
    ELSE [k |-> "num", s |-> IF q.n = 0 THEN 0 ELSE s, n |-> q.n, d |-> q.d]

SurdNaN == [k |-> "nan", s |-> 0, n |-> 0, d |-> 1]

\* the square of a float
FSq(a) == FMul(a, a)

----------------------------------------------------------------------------
(* Series helpers *)

Range(s) == {s[i] : i \in 1..Len(s)}

RECURSIVE SelectIdx(_, _, _)
\* the subsequence of s at the positions i >= from that are in keep
SelectIdx(s, keep, from) ==
    IF from > Len(s) THEN <<>>
    ELSE (IF from \in keep THEN <<s[from]>> ELSE <<>>) \o SelectIdx(s, keep, from + 1)

RECURSIVE FSum(_)
FSum(s) == IF s = <<>> THEN Int2F(0) ELSE FAdd(s[1], FSum(Tail(s)))

notna(s) == SelectIdx(s, {i \in 1..Len(s) : ~isna(s[i])}, 1)

\* Series.mean(): NaN cells are skipped, an empty series has mean NaN
Mean(s) ==
    LET v == notna(s)
    IN  IF Len(v) = 0 THEN NaN ELSE FDiv(FSum(v), Int2F(Len(v)))

\* Series.cov(other): pairwise-complete observations, ddof = 1
Cov(x, y) ==
    LET ok == {i \in 1..Len(x) : i <= Len(y) /\ ~isna(x[i]) /\ ~isna(y[i])}
        xs == SelectIdx(x, ok, 1)
        ys == SelectIdx(y, ok, 1)
        mx == Mean(xs)
        my == Mean(ys)
        n  == Len(xs)
    IN  IF n < 2 THEN NaN
        ELSE FDiv(FSum([i \in 1..n |-> FMul(FSub(xs[i], mx), FSub(ys[i], my))]),
                  Int2F(n - 1))

\* Series.var(): sample variance, ddof = 1
Var(x) == Cov(x, x)

----------------------------------------------------------------------------
(* DataFrames *)

Tickers == <<"A", "B">>

EmptyDF == [index |-> <<>>, columns |-> <<>>, data |-> <<>>]

NRows(df) == Len(df.index)

\* DataFrame.ffill(): a missing cell takes the last valid value above it
ffill(s) ==
    [i \in 1..Len(s) |->
        LET prev == {j \in 1..i : ~isna(s[j])}
        IN  IF prev = {} THEN NaN
            ELSE s[CHOOSE j \in prev : \A h \in prev : h <= j]]

\* the absolute change data - data.shift(1)
ShiftDiff(s) ==
    [i \in 1..Len(s) |->
        IF i = 1 THEN NaN ELSE FSub(s[i], s[i - 1])]

\* data / data.shift(1) - 1
ShiftRatio(s) ==
    [i \in 1..Len(s) |->
        IF i = 1 THEN NaN ELSE FSub(FDiv(s[i], s[i - 1]), Int2F(1))]

\* DataFrame.pct_change() with the default fill_method of the installed
\* pandas: "pad" before pandas 3.0 (gaps are forward-filled first), None since
pct_change(df, fm) ==
    [df EXCEPT !.data = [c \in DOMAIN df.data |->
        IF fm = "pad" THEN ShiftRatio(ffill(df.data[c])) ELSE ShiftRatio(df.data[c])]]

\* DataFrame.dropna(): the rows without any missing cell
dropna(df) ==
    LET keep == {r \in 1..NRows(df) :
                    \A i \in 1..Len(df.columns) : ~isna(df.data[df.columns[i]][r])}
    IN  [index   |-> SelectIdx(df.index, keep, 1),
         columns |-> df.columns,
         data    |-> [c \in DOMAIN df.data |-> SelectIdx(df.data[c], keep, 1)]]

RECURSIVE FProd(_)
FProd(s) == IF s = <<>> THEN Int2F(1) ELSE FMul(s[1], FProd(Tail(s)))

\* Series.cumprod(): NaN cells stay NaN and are skipped by the running product
cumprod(s) ==
    [i \in 1..Len(s) |->
        IF isna(s[i]) THEN NaN ELSE FProd(notna(SubSeq(s, 1, i)))]

FMax(S) == CHOOSE x \in S : \A y \in S : FLe(y, x)

\* Series.expanding().max(): the maximum of the valid cells so far
expanding_max(s) ==
    [i \in 1..Len(s) |->
        LET seen == Range(notna(SubSeq(s, 1, i)))
        IN  IF seen = {} THEN NaN ELSE FMax(seen)]

----------------------------------------------------------------------------
(* Returns Calculator and Drawdown Calculator *)

calculate_returns(df, fm) == dropna(pct_change(df, fm))

cumulative(df, fm) ==
    LET pct == pct_change(df, fm)
    IN  [pct EXCEPT !.data = [c \in DOMAIN pct.data |->
            cumprod([i \in 1..NRows(pct) |-> FAdd(Int2F(1), pct.data[c][i])])]]

running_max(df, fm) ==
    LET cum == cumulative(df, fm)
    IN  [cum EXCEPT !.data = [c \in DOMAIN cum.data |-> expanding_max(cum.data[c])]]

calculate_drawdown(df, fm) ==
    LET cum == cumulative(df, fm)
        rmx == running_max(df, fm)
    IN  [cum EXCEPT !.data = [c \in DOMAIN cum.data |->
            [i \in 1..NRows(cum) |->
                FMul(FDiv(FSub(cum.data[c][i], rmx.data[c][i]), rmx.data[c][i]),
                     Int2F(100))]]]

----------------------------------------------------------------------------
(* Results of a call *)

\* an optional series argument: None, or the series s
None == [none |-> TRUE, s |-> <<>>]
Some(s) == [none |-> FALSE, s |-> s]

NoRequest == [ticker_list |-> <<>>, end_date |-> <<>>]

Ret(v) == [exc |-> "none", ret |-> v]
Raise(e) == [exc |-> e, ret |-> <<>>]

\* no forecast cache on disk
NoFile == [exists |-> FALSE, age_days |-> 0, content |-> [type |-> "none", members |-> {}]]

\* no call in progress: the default label, no collaborator called
InitContext ==
    /\ rebalance = "M"
    /\ calls = <<>>
    /\ cache_file = NoFile

----------------------------------------------------------------------------
(* Price Panels *)

PriceCells == {Int2F(p) : p \in 1..MaxPrice} \cup {NaN}

ColumnLists == {SubSeq(Tickers, 1, k) : k \in 1..Len(Tickers)}

\* the column lists of the panels on the dates idx; a panel without rows has
\* no columns
ColumnsOn(idx) == IF idx = <<>> THEN {<<>>} ELSE ColumnLists

\* the panels on the dates idx with the columns cols
PanelsOf(idx, cols, cells) ==
    {[index |-> idx, columns |-> cols, data |-> dat] :
        dat \in [Range(cols) -> [1..Len(idx) -> cells]]}

\* every row and every column holds at least one price
HasPrices(p) ==
    /\ \A r \in 1..NRows(p) : \E c \in DOMAIN p.data : ~isna(p.data[c][r])
    /\ \A c \in DOMAIN p.data : \E r \in 1..NRows(p) : ~isna(p.data[c][r])

\* the panels pivot can build: Close is NOT NULL, so a cell is missing only
\* where the ticker has no row on a date that another ticker has
PricePanelsOf(idx, cols, cells) == {p \in PanelsOf(idx, cols, cells) : HasPrices(p)}

DayIndex(n) == [i \in 1..n |-> i]

FillMethods == {"pad", "none"}

----------------------------------------------------------------------------
(* Specification SpecPrices: the functions of a Price Panel *)

InitPrices ==
    /\ fill_method \in FillMethods
    /\ stock_data = {}
    /\ \E n \in 0..MaxRows : \E cols \in ColumnsOn(DayIndex(n)) :
            prices_df \in PricePanelsOf(DayIndex(n), cols, PriceCells)
    /\ returns_df = EmptyDF
    /\ market_returns = None
    /\ start_date = 0
    /\ request = NoRequest
    /\ op = "idle"
    /\ result = Ret(<<>>)
    /\ InitContext

CalculateReturns ==
    /\ op = "idle"
    /\ op' = "calculate_returns"
    /\ result' = Ret(calculate_returns(prices_df, fill_method))
    /\ UNCHANGED inputs

\* a drawdown that builds its cumulative returns in the caller's panel
CalculateDrawdownInPlace ==
    /\ op = "idle"
    /\ op' = "calculate_drawdown"
    /\ result' = Ret(calculate_drawdown(prices_df, fill_method))
    /\ prices_df' = cumulative(prices_df, fill_method)
    /\ UNCHANGED <<context, fill_method, stock_data, returns_df, market_returns,
                   start_date, request>>

CalculateDrawdown ==
    /\ op = "idle"
    /\ op' = "calculate_drawdown"
    /\ result' = Ret(calculate_drawdown(prices_df, fill_method))
    /\ UNCHANGED inputs

\* the caller is done with the result of its call; the core keeps nothing
Discard ==
    /\ op # "idle"
    /\ op' = "idle"
    /\ result' = Ret(<<>>)
    /\ market_returns' = None
    /\ request' = NoRequest
    /\ rebalance' = "M"
    /\ calls' = <<>>
    /\ UNCHANGED <<fill_method, stock_data, prices_df, returns_df, start_date, cache_file>>

NextPrices == CalculateReturns \/ CalculateDrawdown \/ Discard

SpecPrices == InitPrices /\ [][NextPrices]_vars

\* the Returns Calculator alone
NextReturns == CalculateReturns \/ Discard

SpecReturns == InitPrices /\ [][NextReturns]_vars

----------------------------------------------------------------------------
(* Claims about the Returns Calculator and the Drawdown Calculator *)

\* the rows of the panel p, after the first, where row r and row r - 1 hold a
\* price for every instrument
CompleteRows(p) ==
    {r \in 2..NRows(p) :
        \A i \in 1..Len(p.columns) :
            ~isna(p.data[p.columns[i]][r]) /\ ~isna(p.data[p.columns[i]][r - 1])}

\* C1: calculate_returns yields exactly the rows d, after the first, in which
\* no instrument has a missing price at d-1 or d, with
\* cell (d, i) = price(d, i) / price(d-1, i) - 1; the first row and every row
\* with a missing value are excluded.
C1_ReturnsAsClaimed ==
    op = "calculate_returns" =>
        LET R == result.ret
            P == prices_df
        IN  /\ R.columns = P.columns
            /\ R.index = SelectIdx(P.index, CompleteRows(P), 1)
            /\ \A r \in 1..NRows(P) :
                 (\E i \in 1..Len(P.columns) : isna(P.data[P.columns[i]][r]))
                    => P.index[r] \notin Range(R.index)
            /\ \A i \in 1..Len(P.columns) :
                 LET c == P.columns[i]
                 IN  R.data[c] =
                        SelectIdx([r \in 1..NRows(P) |->
                                      IF r = 1 THEN NaN
                                      ELSE FSub(FDiv(P.data[c][r], P.data[c][r - 1]),
                                                Int2F(1))],
                                  CompleteRows(P), 1)

\* the same statement for the builds whose pct_change does not fill gaps
C1_ReturnsWithoutFill ==
    fill_method = "none" => C1_ReturnsAsClaimed

NoMissing(df) ==
    \A i \in 1..Len(df.columns) : \A r \in 1..NRows(df) : ~isna(df.data[df.columns[i]][r])

\* C2: every drawdown value is <= 0, and it is exactly 0 wherever the
\* cumulative-return index equals its running maximum (stated here for the
\* panels without a missing price, where it already fails).
C2_DrawdownNonPositive ==
    (op = "calculate_drawdown" /\ NoMissing(prices_df)) =>
        LET D == result.ret
            cum == cumulative(prices_df, fill_method)
            rmx == running_max(prices_df, fill_method)
        IN  \A i \in 1..Len(D.columns) : \A r \in 1..NRows(D) :
                LET c == D.columns[i]
                IN  /\ FLe(D.data[c][r], Int2F(0))
                    /\ (cum.data[c][r] = rmx.data[c][r] /\ IsNum(cum.data[c][r]))
                            => D.data[c][r] = Int2F(0)

\* the drawdown values that are numbers are <= 0
C2_DefinedValuesNonPositive ==
    op = "calculate_drawdown" =>
        LET D == result.ret
        IN  \A i \in 1..Len(D.columns) : \A r \in 1..NRows(D) :
                IsNum(D.data[D.columns[i]][r])
                    => FLe(D.data[D.columns[i]][r], Int2F(0))

NonDecreasing(s) ==
    \A r \in 2..Len(s) : IsNum(s[r]) /\ IsNum(s[r - 1]) /\ FLe(s[r - 1], s[r])

\* C3: the Drawdown Panel has the shape of the Price Panel, its first row is
\* 0 (the index starts at cum[first] = 1), and a price series that never
\* decreases has drawdown 0 at every date.
C3_DrawdownFirstRowZero ==
    (op = "calculate_drawdown" /\ NRows(prices_df) > 0) =>
        LET D == result.ret
        IN  /\ D.index = prices_df.index
            /\ D.columns = prices_df.columns
            /\ \A i \in 1..Len(D.columns) :
                 LET c == D.columns[i]
                 IN  /\ IsNum(prices_df.data[c][1]) => D.data[c][1] = Int2F(0)
                     /\ (IsNum(prices_df.data[c][1]) /\ NonDecreasing(prices_df.data[c]))
                            => \A r \in 1..NRows(D) : D.data[c][r] = Int2F(0)

----------------------------------------------------------------------------
(* Risk/Return Metric Engine.  A pandas Series keyed by ticker is a function *)
(* from the tickers to values; the empty mapping is << >>.                   *)

trading_days == 252
risk_free_rate == Rat(2, 100)
confidence_level == Rat(95, 100)

Keys(df) == Range(df.columns)

\* the sum of each row, not divided by the number of instruments
RowSum(df) ==
    [r \in 1..NRows(df) |->
        FSum([i \in 1..Len(df.columns) |-> df.data[df.columns[i]][r]])]

\* returns_df.mean(axis=1): the equal-weighted mean of each row
RowMean(df) ==
    [r \in 1..NRows(df) |->
        Mean([i \in 1..Len(df.columns) |-> df.data[df.columns[i]][r]])]

\* the row mean of the panel whether or not a benchmark is supplied
BenchmarkOfPanel(df, m) == RowMean(df)

\* the benchmark series: the supplied one, else the row mean of the panel
Benchmark(df, m) == IF m.none THEN RowMean(df) ELSE m.s

calculate_annualized_return(df) ==
    [c \in Keys(df) |->
        FMul(FMul(Mean(df.data[c]), Int2F(trading_days)), Int2F(100))]

\* daily_std * sqrt(252) * 100, kept as sqrt(var * 252 * 100^2)
calculate_volatility(df) ==
    [c \in Keys(df) |->
        Surd(1, FMul(Var(df.data[c]), Int2F(trading_days * 100 * 100)))]

SurdGt0(v) == v.k \in {"num", "inf"} /\ v.s > 0

BetaGuardGe(mv) == FGe(mv, Int2F(0))

BetaGuardNotLe(mv) == ~FLe(mv, Int2F(0))

\* market_variance > 0 (False for NaN)
BetaGuard(mv) == FGt(mv, Int2F(0))

calculate_beta(df, m) ==
    LET mr == Benchmark(df, m)
    IN  [c \in Keys(df) |->
            LET covariance == Cov(df.data[c], mr)
                market_variance == Var(mr)
            IN  IF BetaGuard(market_variance)
                THEN FDiv(covariance, market_variance)
                ELSE Int2F(1)]

FloatLe(a, b) == FLe(a, b)

\* the order statistic at or below the position (n - 1) * q, not interpolated
QuantileLower(s, q) ==
    LET v == SortSeq(notna(s), FloatLe)
        n == Len(v)
    IN  IF n = 0 THEN NaN
        ELSE LET h == FMul(Int2F(n - 1), q)
             IN  v[(h.n \div h.d) + 1]

\* Series.quantile(q), linear interpolation between order statistics
Quantile(s, q) ==
    LET v == SortSeq(notna(s), FloatLe)
        n == Len(v)
    IN  IF n = 0 THEN NaN
        ELSE LET h  == FMul(Int2F(n - 1), q)
                 lo == h.n \div h.d
                 fr == FSub(h, Int2F(lo))
             IN  IF lo + 1 >= n THEN v[n]
                 ELSE FAdd(v[lo + 1], FMul(fr, FSub(v[lo + 2], v[lo + 1])))

calculate_var(df, cl) ==
    [c \in Keys(df) |->
        FMul(Quantile(df.data[c], FSub(Int2F(1), cl)), Int2F(100))]

SharpeGuardGe(v) == v.k \in {"num", "inf"} /\ v.s >= 0

\* annualized_vol[ticker] > 0 (False for NaN)
SharpeGuard(v) == SurdGt0(v)

\* excess / vol for vol = sqrt(q) > 0: sign(excess) * sqrt(excess^2 / q)
DivBySurd(x, v) ==
    IF IsNaN(x) \/ v.k = "nan" THEN SurdNaN
    ELSE IF v.n = 0 THEN (IF x.n = 0 THEN SurdNaN
                          ELSE [k |-> "inf", s |-> Sign(x.n), n |-> 0, d |-> 1])
    ELSE Surd(Sign(x.n), FDiv(FSq(x), Rat(v.n, v.d)))

calculate_sharpe_ratio(df, rf) ==
    LET annualized_vol == calculate_volatility(df)
        daily_rf == FDiv(rf, Int2F(trading_days))
    IN  [c \in Keys(df) |->
            IF SharpeGuard(annualized_vol[c])
            THEN LET excess_return ==
                        FMul(FMul(FSub(Mean(df.data[c]), daily_rf),
                                  Int2F(trading_days)), Int2F(100))
                 IN  DivBySurd(excess_return, annualized_vol[c])
            ELSE Surd(0, Int2F(0))]

calculate_alpha(df, beta_series, m, rf) ==
    LET mr == Benchmark(df, m)
        annualized_returns == calculate_annualized_return(df)
        market_annualized == FMul(FMul(Mean(mr), Int2F(trading_days)), Int2F(100))
        rf100 == FMul(rf, Int2F(100))
    IN  [c \in Keys(df) |->
            LET expected_return ==
                    FAdd(rf100, FMul(beta_series[c], FSub(market_annualized, rf100)))
            IN  FSub(annualized_returns[c], expected_return)]

\* DataFrame.corr(): Pearson, cov / sqrt(var_x * var_y) for every pair of
\* columns, the diagonal included; NaN when that divisor is 0 or undefined
Pearson(x, y) ==
    LET cv == Cov(x, y)
        divisor == FMul(Var(x), Var(y))
    IN  IF IsNum(divisor) /\ divisor.n # 0
        THEN Surd(Sign(cv.n), FDiv(FSq(cv), divisor))
        ELSE SurdNaN

calculate_correlation_matrix(df) ==
    [a \in Keys(df) |-> [b \in Keys(df) |-> Pearson(df.data[a], df.data[b])]]

----------------------------------------------------------------------------
(* Specification SpecMetrics: the functions of a Returns Panel *)

\* daily returns and benchmark returns the panels are drawn from
RetValues == {Rat(-1, 2), Int2F(0), Int2F(1)}
BenchValues == {Int2F(0), Int2F(1)}

\* the column lists of the Returns Panels of n rows; without rows a panel
\* has no instrument at all, or instruments without rows
ReturnColumns(n) == IF n = 0 THEN {<<>>} \cup ColumnLists ELSE ColumnLists

Benchmarks(df) == {None} \cup {Some(s) : s \in [1..NRows(df) -> BenchValues]}

\* the metric functions never call pct_change
InitMetrics ==
    /\ fill_method = "pad"
    /\ stock_data = {}
    /\ prices_df = EmptyDF
    /\ \E n \in 0..MaxRows : \E cols \in ReturnColumns(n) :
            returns_df \in PanelsOf(DayIndex(n), cols, RetValues)
    /\ market_returns = None
    /\ start_date = 0
    /\ request = NoRequest
    /\ op = "idle"
    /\ result = Ret(<<>>)
    /\ InitContext

CalculateAnnualizedReturn ==
    /\ op = "idle"
    /\ op' = "calculate_annualized_return"
    /\ result' = Ret(calculate_annualized_return(returns_df))
    /\ market_returns' = None
    /\ UNCHANGED <<context, fill_method, stock_data, prices_df, returns_df, start_date, request>>

CalculateVolatility ==
    /\ op = "idle"
    /\ op' = "calculate_volatility"
    /\ result' = Ret(calculate_volatility(returns_df))
    /\ market_returns' = None
    /\ UNCHANGED <<context, fill_method, stock_data, prices_df, returns_df, start_date, request>>

CalculateBeta ==
    /\ op = "idle"
    /\ \E m \in Benchmarks(returns_df) :
        /\ op' = "calculate_beta"
        /\ market_returns' = m
        /\ result' = Ret(calculate_beta(returns_df, m))
        /\ UNCHANGED <<context, fill_method, stock_data, prices_df, returns_df, start_date, request>>

CalculateVar ==
    /\ op = "idle"
    /\ op' = "calculate_var"
    /\ result' = Ret(calculate_var(returns_df, confidence_level))
    /\ market_returns' = None
    /\ UNCHANGED <<context, fill_method, stock_data, prices_df, returns_df, start_date, request>>

CalculateSharpeRatio ==
    /\ op = "idle"
    /\ op' = "calculate_sharpe_ratio"
    /\ result' = Ret(calculate_sharpe_ratio(returns_df, risk_free_rate))
    /\ market_returns' = None
    /\ UNCHANGED <<context, fill_method, stock_data, prices_df, returns_df, start_date, request>>

\* called as the facade calls it, with the betas of the same panel
CalculateAlpha ==
    /\ op = "idle"
    /\ \E m \in Benchmarks(returns_df) :
        /\ op' = "calculate_alpha"
        /\ market_returns' = m
        /\ result' = Ret(calculate_alpha(returns_df, calculate_beta(returns_df, m),
                                         m, risk_free_rate))
        /\ UNCHANGED <<context, fill_method, stock_data, prices_df, returns_df, start_date, request>>

CalculateCorrelationMatrix ==
    /\ op = "idle"
    /\ op' = "calculate_correlation_matrix"
    /\ result' = Ret(calculate_correlation_matrix(returns_df))
    /\ market_returns' = None
    /\ UNCHANGED <<context, fill_method, stock_data, prices_df, returns_df, start_date, request>>

NextMetrics ==
    \/ CalculateAnnualizedReturn
    \/ CalculateVolatility
    \/ CalculateBeta
    \/ CalculateVar
    \/ CalculateSharpeRatio
    \/ CalculateAlpha
    \/ CalculateCorrelationMatrix
    \/ Discard

SpecMetrics == InitMetrics /\ [][NextMetrics]_vars

\* the specifications of one metric function each
NextBeta == CalculateBeta \/ Discard

SpecBeta == InitMetrics /\ [][NextBeta]_vars

NextAlpha == CalculateAlpha \/ Discard

SpecAlpha == InitMetrics /\ [][NextAlpha]_vars

NextVar == CalculateVar \/ Discard

SpecVar == InitMetrics /\ [][NextVar]_vars

----------------------------------------------------------------------------
(* Claims about the metric functions *)

SurdOne == Surd(1, Int2F(1))
SurdZero == Surd(0, Int2F(0))

\* -1 <= sign * sqrt(n/d) <= 1
SurdInUnit(v) == v.k = "num" /\ v.n <= v.d

\* C4: for every Returns Panel, zero-variance instruments included, the
\* correlation matrix is symmetric, has 1.0 on its diagonal and entries in
\* [-1, 1] (stated for the panels of at least two rows).
C4_CorrelationAsClaimed ==
    (op = "calculate_correlation_matrix" /\ NRows(returns_df) >= 2) =>
        LET corr == result.ret
        IN  /\ DOMAIN corr = Keys(returns_df)
            /\ \A a \in Keys(returns_df) :
                /\ DOMAIN corr[a] = Keys(returns_df)
                /\ corr[a][a] = SurdOne
                /\ \A b \in Keys(returns_df) :
                    corr[a][b] = corr[b][a] /\ SurdInUnit(corr[a][b])

PositiveVariance(s) == FGt(Var(s), Int2F(0))

\* the same statement for the panels whose instruments all vary
C4_CorrelationOfVaryingColumns ==
    (\A c \in Keys(returns_df) : PositiveVariance(returns_df.data[c]))
        => C4_CorrelationAsClaimed

\* C5: when the benchmark's variance is exactly 0 (supplied or default
\* benchmark) every beta is 1.0 and nothing is raised; no beta is ever the
\* result of a division by a zero variance (every beta is a finite number).
C5_BetaZeroVarianceFallback ==
    op = "calculate_beta" =>
        /\ result.exc = "none"
        /\ DOMAIN result.ret = Keys(returns_df)
        /\ Var(Benchmark(returns_df, market_returns)) = Int2F(0)
                => \A c \in Keys(returns_df) : result.ret[c] = Int2F(1)
        /\ \A c \in Keys(returns_df) : IsNum(result.ret[c])

\* a zero-variance default benchmark over instruments that do vary
C5_Witness ==
    /\ op = "calculate_beta"
    /\ market_returns = None
    /\ Var(RowMean(returns_df)) = Int2F(0)
    /\ \E c \in Keys(returns_df) :
        PositiveVariance(returns_df.data[c]) /\ result.ret[c] = Int2F(1)

\* C6: an instrument whose annualized volatility is 0 gets Sharpe ratio
\* exactly 0; no Sharpe ratio is NaN or infinite, and nothing is raised.
C6_SharpeZeroVolatilityFallback ==
    op = "calculate_sharpe_ratio" =>
        /\ result.exc = "none"
        /\ DOMAIN result.ret = Keys(returns_df)
        /\ \A c \in Keys(returns_df) :
            /\ calculate_volatility(returns_df)[c] = SurdZero => result.ret[c] = SurdZero
            /\ result.ret[c].k = "num"

\* every instrument has at least two rows and zero variance
C6_Witness ==
    /\ op = "calculate_sharpe_ratio"
    /\ NRows(returns_df) >= 2
    /\ Len(returns_df.columns) = 2
    /\ \A c \in Keys(returns_df) :
        Var(returns_df.data[c]) = Int2F(0) /\ result.ret[c] = SurdZero

MetricOps ==
    {"calculate_annualized_return", "calculate_volatility", "calculate_beta",
     "calculate_var", "calculate_sharpe_ratio", "calculate_alpha"}

\* C7 as claimed: for a Returns Panel without rows every metric function
\* returns an empty mapping and does not raise.
C7_EmptyPanelEmptyMapping ==
    (op \in MetricOps /\ NRows(returns_df) = 0) =>
        result.exc = "none" /\ result.ret = <<>>

\* C7 as amended: for a Returns Panel without rows no metric function raises
\* and each returns one entry per instrument of the panel (so an empty mapping
\* exactly when there is no instrument): NaN for annualized return,
\* volatility, VaR and alpha, the fallbacks 1.0 for beta and 0 for Sharpe.
C7_EmptyPanelKeyedByInstrument ==
    (op \in MetricOps /\ NRows(returns_df) = 0) =>
        /\ result.exc = "none"
        /\ DOMAIN result.ret = Keys(returns_df)
        /\ (result.ret = <<>>) <=> (returns_df.columns = <<>>)
        /\ \A c \in Keys(returns_df) :
            /\ op \in {"calculate_annualized_return", "calculate_var", "calculate_alpha"}
                    => result.ret[c] = NaN
            /\ op = "calculate_volatility" => result.ret[c] = SurdNaN
            /\ op = "calculate_beta" => result.ret[c] = Int2F(1)
            /\ op = "calculate_sharpe_ratio" => result.ret[c] = SurdZero

\* beta was asked of a panel with two instruments and no rows
C7_Witness ==
    /\ op = "calculate_beta"
    /\ NRows(returns_df) = 0
    /\ Len(returns_df.columns) = 2
    /\ result.ret = [c \in Keys(returns_df) |-> Int2F(1)]

\* sum / count of a series without missing values
Average(s) == FDiv(FSum(s), Int2F(Len(s)))

\* the benchmark as the specification defines it: the supplied series, else
\* the equal-weighted mean across all instruments of each row
SpecBenchmark(df, m) ==
    IF m.none
    THEN [r \in 1..NRows(df) |->
            Average([i \in 1..Len(df.columns) |-> df.data[df.columns[i]][r]])]
    ELSE m.s

\* 252 * mean * 100
Annualized(s) == FMul(FMul(Int2F(252), Average(s)), Int2F(100))

\* C15: calculate_alpha returns, per instrument, annualized_return -
\* (risk_free*100 + beta*(benchmark_annualized_return - risk_free*100)), where
\* benchmark_annualized_return is 252 * mean * 100 of the same benchmark
\* series that Beta uses (the supplied series, else the equal-weighted row
\* mean of the Returns Panel).
C15_AlphaIsCapmResidual ==
    op = "calculate_alpha" =>
        LET beta == calculate_beta(returns_df, market_returns)
            rf100 == FMul(risk_free_rate, Int2F(100))
            benchmark_annualized_return ==
                Annualized(SpecBenchmark(returns_df, market_returns))
        IN  /\ result.exc = "none"
            /\ DOMAIN result.ret = Keys(returns_df)
            /\ \A c \in Keys(returns_df) :
                 result.ret[c] =
                    FSub(Annualized(returns_df.data[c]),
                         FAdd(rf100, FMul(beta[c],
                                          FSub(benchmark_annualized_return, rf100))))

\* a supplied benchmark whose mean differs from the mean of the row means,
\* and an instrument whose beta is neither 0 nor the fallback
C15_Witness ==
    /\ op = "calculate_alpha"
    /\ ~market_returns.none
    /\ NRows(returns_df) >= 2
    /\ Average(market_returns.s) # Average(RowMean(returns_df))
    /\ \E c \in Keys(returns_df) :
        /\ calculate_beta(returns_df, market_returns)[c] \notin {Int2F(0), Int2F(1)}
        /\ IsNum(result.ret[c])

\* the sample covariance of two series without missing values
SampleCov(x, y) ==
    LET ax == Average(x)
        ay == Average(y)
    IN  FDiv(FSum([i \in 1..Len(x) |-> FMul(FSub(x[i], ax), FSub(y[i], ay))]),
             Int2F(Len(x) - 1))

\* C16: when the benchmark variance is positive, calculate_beta returns for
\* each instrument cov(instrument_returns, benchmark_returns) /
\* var(benchmark_returns); when no benchmark is supplied the benchmark is the
\* equal-weighted mean across all instruments of each Returns Panel row.
C16_BetaIsCovOverVar ==
    (op = "calculate_beta" /\ NRows(returns_df) >= 2) =>
        LET bench == SpecBenchmark(returns_df, market_returns)
            variance == SampleCov(bench, bench)
        IN  FGt(variance, Int2F(0)) =>
                /\ result.exc = "none"
                /\ DOMAIN result.ret = Keys(returns_df)
                /\ \A c \in Keys(returns_df) :
                     result.ret[c] = FDiv(SampleCov(returns_df.data[c], bench), variance)

\* the default benchmark over two instruments, with a negative beta
C16_Witness ==
    /\ op = "calculate_beta"
    /\ market_returns.none
    /\ Len(returns_df.columns) = 2
    /\ PositiveVariance(RowMean(returns_df))
    /\ \E c \in Keys(returns_df) : FLt(result.ret[c], Int2F(0))

\* the number of values of the series that are <= x
CountLe(s, x) == Cardinality({i \in 1..Len(s) : FLe(s[i], x)})

\* the k-th smallest value of a series without missing values
OrderStatistic(s, k) ==
    CHOOSE x \in Range(s) :
        CountLe(s, x) >= k /\ \A y \in Range(s) : CountLe(s, y) >= k => FLe(x, y)

\* C20: calculate_var(returns, c) returns for each instrument 100 times the
\* (1 - c) empirical quantile of its daily returns, obtained by linear
\* interpolation between the two neighbouring order statistics (c is the
\* default 0.95); the result lies between the smallest and the largest daily
\* return times 100.
C20_VarIsInterpolatedQuantile ==
    (op = "calculate_var" /\ NRows(returns_df) >= 1) =>
        /\ result.exc = "none"
        /\ DOMAIN result.ret = Keys(returns_df)
        /\ \A c \in Keys(returns_df) :
            LET s == returns_df.data[c]
                n == Len(s)
                h == FMul(Int2F(n - 1), Rat(5, 100))
                lo == h.n \div h.d
                below == OrderStatistic(s, lo + 1)
                above == OrderStatistic(s, IF lo + 2 <= n THEN lo + 2 ELSE n)
            IN  /\ result.ret[c] =
                    FMul(FAdd(below, FMul(FSub(h, Int2F(lo)), FSub(above, below))),
                         Int2F(100))
                /\ FLe(FMul(OrderStatistic(s, 1), Int2F(100)), result.ret[c])
                /\ FLe(result.ret[c], FMul(OrderStatistic(s, n), Int2F(100)))

\* three returns, the two smallest distinct: the result lies strictly between
C20_Witness ==
    /\ op = "calculate_var"
    /\ NRows(returns_df) = 3
    /\ \E c \in Keys(returns_df) :
        LET s == returns_df.data[c]
        IN  /\ OrderStatistic(s, 1) # OrderStatistic(s, 2)
            /\ FLt(FMul(OrderStatistic(s, 1), Int2F(100)), result.ret[c])
            /\ FLt(result.ret[c], FMul(OrderStatistic(s, 2), Int2F(100)))

----------------------------------------------------------------------------
(* Performance Window Aggregator.  A date is the number of days since        *)
(* 2000-01-01; the years of the model are 2000..2009.                        *)

\* the day number of January 1 of year y (leap years 2000, 2004, 2008)
YearStart(y) == 365 * (y - 2000) + ((y - 2000 + 3) \div 4)

\* end_date.year
YearOf(date) == CHOOSE y \in 2000..2009 : YearStart(y) <= date /\ date < YearStart(y + 1)

\* the periods with the two that have no day count moved to the end
PeriodsByDayCount == <<"1M", "3M", "1Y", "3Y", "5Y", "YTD", "Inception">>

\* the keys of the dict periods, in insertion order
Periods == <<"1M", "3M", "YTD", "1Y", "3Y", "5Y", "Inception">>

Days1M == 30
Days3M == 90
Days1Y == 252
Days3Y == 756
Days5Y == 1260

PeriodDays(period_name) ==
    CASE period_name = "1M" -> Days1M
      [] period_name = "3M" -> Days3M
      [] period_name = "1Y" -> Days1Y
      [] period_name = "3Y" -> Days3Y
      [] period_name = "5Y" -> Days5Y

Last(sq) == sq[Len(sq)]

\* period_start before the snap: the nominal start, clamped to the first date
\* for every period but Inception
NominalStart(df, period_name, sd) ==
    LET end_date == Last(df.index)
        first == df.index[1]
    IN  IF period_name = "YTD"
        THEN (LET ps == YearStart(YearOf(end_date))
              IN  IF ps < first THEN first ELSE ps)
        ELSE IF period_name = "Inception" THEN sd
        ELSE (LET ps == end_date - PeriodDays(period_name)
              IN  IF ps < first THEN first ELSE ps)

\* prices_df.index[prices_df.index >= period_start]
DatesFrom(df, period_start) ==
    SelectIdx(df.index, {i \in 1..NRows(df) : df.index[i] >= period_start}, 1)

\* whether ...[0] finds a date
CanSnap(df, period_name, sd) == DatesFrom(df, NominalStart(df, period_name, sd)) # <<>>

\* the nominal start snapped back to the latest index date <= it, the first
\* date when there is none
AnchorSnappedBack(df, period_name, sd) ==
    LET before == {i \in 1..NRows(df) : df.index[i] <= NominalStart(df, period_name, sd)}
    IN  IF before = {} THEN df.index[1]
        ELSE df.index[CHOOSE i \in before : \A j \in before : j <= i]

\* the anchor: the first index date >= period_start
Anchor(df, period_name, sd) == DatesFrom(df, NominalStart(df, period_name, sd))[1]

\* the positions of prices_df.loc[period_start:period_end]
Window(df, period_start, period_end) ==
    {i \in 1..NRows(df) : period_start <= df.index[i] /\ df.index[i] <= period_end}

\* round(x, 2), ties to even
Round2(x) ==
    IF ~IsNum(x) THEN x
    ELSE LET y  == FMul(x, Int2F(100))
             fl == y.n \div y.d
             r2 == 2 * (y.n - fl * y.d)
             q  == IF r2 > y.d \/ (r2 = y.d /\ fl % 2 = 1) THEN fl + 1 ELSE fl
         IN  Rat(q, 100)

EmitGuardGe1(n) == n >= 1

\* len(period_prices) > 1
EmitGuard(n) == n > 1

\* the row of one period, or no row
PeriodRow(df, period_name, sd) ==
    LET win == Window(df, Anchor(df, period_name, sd), Last(df.index))
        lo  == CHOOSE i \in win : \A j \in win : i <= j
        hi  == CHOOSE i \in win : \A j \in win : j <= i
    IN  IF EmitGuard(Cardinality(win))
        THEN <<[Period |-> period_name,
                values |-> [c \in Keys(df) |->
                    Round2(FMul(FSub(FDiv(df.data[c][hi], df.data[c][lo]), Int2F(1)),
                                Int2F(100)))]]>>
        ELSE <<>>

RECURSIVE SummaryRows(_, _, _)
\* summary_data after the periods from position k on
SummaryRows(df, sd, k) ==
    IF k > Len(Periods) THEN <<>>
    ELSE PeriodRow(df, Periods[k], sd) \o SummaryRows(df, sd, k + 1)

\* prices_df.index[-1] raises on an empty index, ...[0] when no index date is
\* on or after period_start
calculate_performance_summary(df, sd) ==
    IF NRows(df) = 0 THEN Raise("IndexError")
    ELSE IF \E k \in 1..Len(Periods) : ~CanSnap(df, Periods[k], sd)
         THEN Raise("IndexError")
    ELSE Ret(SummaryRows(df, sd, 1))

----------------------------------------------------------------------------
(* Specification SpecSummary: calculate_performance_summary on a panel *)

\* the dates of the model: 2000-01-01, 2004-02-09, 2004-12-05, 2004-12-31,
\* 2005-01-02, 2005-01-14, 2005-03-15
DateGrid == {0, 1500, 1800, 1826, 1828, 1840, 1900}

RECURSIVE SortedSeq(_)
\* the dates of S in ascending order
SortedSeq(S) ==
    IF S = {} THEN <<>>
    ELSE LET mn == CHOOSE x \in S : \A y \in S : x <= y
         IN  <<mn>> \o SortedSeq(S \ {mn})

\* strictly ascending date indexes of at most MaxRows dates
Indexes == {SortedSeq(S) : S \in {T \in SUBSET DateGrid : Cardinality(T) <= MaxRows}}

SummaryPrices == {Int2F(1), Int2F(2)}

InitSummary ==
    /\ fill_method = "pad"
    /\ stock_data = {}
    /\ \E idx \in Indexes : \E cols \in ColumnsOn(idx) :
            prices_df \in PanelsOf(idx, cols, SummaryPrices)
    /\ returns_df = EmptyDF
    /\ market_returns = None
    /\ start_date \in DateGrid
    /\ request = NoRequest
    /\ op = "idle"
    /\ result = Ret(<<>>)
    /\ InitContext

CalculatePerformanceSummary ==
    /\ op = "idle"
    /\ op' = "calculate_performance_summary"
    /\ result' = calculate_performance_summary(prices_df, start_date)
    /\ UNCHANGED inputs

NextSummary == CalculatePerformanceSummary \/ Discard

SpecSummary == InitSummary /\ [][NextSummary]_vars

----------------------------------------------------------------------------
(* Claims about the Performance Window Aggregator *)

Max2(a, b) == IF a >= b THEN a ELSE b

\* the period's nominal start as the specification defines it
SpecNominal(df, period_name, sd) ==
    CASE period_name = "YTD" -> YearStart(YearOf(Last(df.index)))
      [] period_name = "Inception" -> sd
      [] OTHER -> Last(df.index) - PeriodDays(period_name)

\* C9: for every non-empty panel and every inception date the call does not
\* fail, and every period's anchor is a date of the index: the earliest index
\* date >= the nominal start clamped to the panel's first date.
C9_AnchorAlwaysResolves ==
    (op = "calculate_performance_summary" /\ NRows(prices_df) > 0) =>
        /\ result.exc = "none"
        /\ \A k \in 1..Len(Periods) :
            LET clamped == Max2(SpecNominal(prices_df, Periods[k], start_date),
                                prices_df.index[1])
                anchor == Anchor(prices_df, Periods[k], start_date)
            IN  /\ CanSnap(prices_df, Periods[k], start_date)
                /\ anchor \in Range(prices_df.index)
                /\ anchor >= clamped
                /\ \A i \in 1..NRows(prices_df) :
                        prices_df.index[i] >= clamped => anchor <= prices_df.index[i]

\* the same statement for the inception dates not after the panel's last date
C9_AnchorResolvesInRange ==
    (NRows(prices_df) = 0 \/ start_date <= Last(prices_df.index))
        => C9_AnchorAlwaysResolves

PeriodsOf(rows) == [i \in 1..Len(rows) |-> rows[i].Period]

\* consecutive rows are at most 30 days apart
NoLongGap(df) ==
    \A i \in 2..NRows(df) : df.index[i] - df.index[i - 1] <= Days1M

\* C10 as claimed: a panel of at least 2 rows gets a row for every one of the
\* 7 periods (stated for the panels without a gap of more than 30 days and
\* the inception dates not after the panel's first date).
C10_AllSevenPeriods ==
    (/\ op = "calculate_performance_summary"
     /\ NRows(prices_df) >= 2
     /\ NoLongGap(prices_df)
     /\ start_date <= prices_df.index[1]) =>
        result.exc = "none" /\ PeriodsOf(result.ret) = Periods

\* C10 as amended: the rows emitted are those of the periods whose anchor is
\* earlier than the panel's last date; a period anchored at the last date is
\* omitted; an inception date after the last date makes the call raise.
C10_RowsOfAnchoredPeriods ==
    (op = "calculate_performance_summary" /\ NRows(prices_df) >= 2) =>
        IF start_date > Last(prices_df.index)
        THEN result.exc = "IndexError"
        ELSE /\ result.exc = "none"
             /\ PeriodsOf(result.ret) =
                    SelectIdx(Periods,
                              {k \in 1..Len(Periods) :
                                  Anchor(prices_df, Periods[k], start_date)
                                      < Last(prices_df.index)}, 1)

\* a well-formed panel whose YTD row is omitted while other rows are emitted
C10_Witness ==
    /\ op = "calculate_performance_summary"
    /\ NRows(prices_df) >= 2
    /\ NoLongGap(prices_df)
    /\ result.exc = "none"
    /\ "YTD" \notin Range(PeriodsOf(result.ret))
    /\ "1M" \in Range(PeriodsOf(result.ret))
    /\ "Inception" \in Range(PeriodsOf(result.ret))

\* the fixed label order of the Performance Summary Table
LabelOrder == <<"1M", "3M", "YTD", "1Y", "3Y", "5Y", "Inception">>

LabelPos(label) == CHOOSE k \in 1..Len(LabelOrder) : LabelOrder[k] = label

\* C11: the rows of the Performance Summary Table appear in the fixed label
\* order 1M, 3M, YTD, 1Y, 3Y, 5Y, Inception: the emitted Period sequence is a
\* subsequence of that order with no label repeated, whichever periods are
\* omitted.
C11_RowsInLabelOrder ==
    (op = "calculate_performance_summary" /\ result.exc = "none") =>
        LET labels == PeriodsOf(result.ret)
        IN  /\ \A i \in 1..Len(labels) : labels[i] \in Range(LabelOrder)
            /\ \A i, j \in 1..Len(labels) :
                    i < j => LabelPos(labels[i]) < LabelPos(labels[j])

\* the short periods are omitted and rows are emitted on both sides of YTD
C11_Witness ==
    /\ op = "calculate_performance_summary"
    /\ result.exc = "none"
    /\ PeriodsOf(result.ret) = <<"3M", "YTD", "1Y", "3Y", "5Y", "Inception">>

\* the position of the date in the index
RowOf(df, date) == CHOOSE i \in 1..NRows(df) : df.index[i] = date

\* the rows of the table with the label
RowsLabelled(rows, label) == {i \in 1..Len(rows) : rows[i].Period = label}

\* C12: the Inception row's anchor date is never earlier than the supplied
\* inception date, and when the supplied inception date precedes the panel's
\* first date the anchor is exactly the panel's first date; the Inception row
\* is the return from the anchor date to the last date.
C12_InceptionAnchor ==
    (op = "calculate_performance_summary" /\ result.exc = "none") =>
        LET anchor == Anchor(prices_df, "Inception", start_date)
            first == prices_df.index[1]
        IN  /\ anchor \in Range(prices_df.index)
            /\ anchor >= start_date
            /\ start_date < first => anchor = first
            /\ \A i \in RowsLabelled(result.ret, "Inception") :
                 \A c \in Keys(prices_df) :
                    result.ret[i].values[c] =
                        Round2(FMul(FSub(FDiv(Last(prices_df.data[c]),
                                              prices_df.data[c][RowOf(prices_df, anchor)]),
                                         Int2F(1)), Int2F(100)))

\* an inception date between two index dates: the row is anchored at the
\* later one, whose price differs from the earlier one's
C12_Witness ==
    /\ op = "calculate_performance_summary"
    /\ result.exc = "none"
    /\ NRows(prices_df) = 3
    /\ prices_df.index[1] < start_date /\ start_date < prices_df.index[2]
    /\ RowsLabelled(result.ret, "Inception") # {}
    /\ \E c \in Keys(prices_df) : prices_df.data[c][1] # prices_df.data[c][2]

\* an inception date before the first date: the row is anchored at the first
C12_WitnessBeforeFirst ==
    /\ op = "calculate_performance_summary"
    /\ result.exc = "none"
    /\ start_date < prices_df.index[1]
    /\ RowsLabelled(result.ret, "Inception") # {}

----------------------------------------------------------------------------
(* The round trip from the Returns Panel back to the last price *)

\* price[0] * the product of (1 + r) over the rows r of the returns
Reconstructed(first_price, returns) ==
    FMul(first_price, FProd([i \in 1..Len(returns) |-> FAdd(Int2F(1), returns[i])]))

----------------------------------------------------------------------------
(* The loader, the remaining functions and the Portfolio Metrics Facade *)

\* SELECT ... WHERE Ticker IN (ticker_list) AND Date >= start AND Date <= end
Query(table, ticker_list, sd, ed) ==
    {r \in table : r.Ticker \in Range(ticker_list) /\ sd <= r.Date /\ r.Date <= ed}

\* df.pivot(index='Date', columns='Ticker', values='Close'): the dates and the
\* tickers of the rows, each in ascending order (Tickers is in alphabetical
\* order); a cell without a row is missing
load_portfolio_data(table, ticker_list, sd, ed) ==
    LET rows == Query(table, ticker_list, sd, ed)
        idx  == SortedSeq({r.Date : r \in rows})
        cols == SelectIdx(Tickers, {i \in 1..Len(Tickers) :
                                        \E r \in rows : r.Ticker = Tickers[i]}, 1)
    IN  [index   |-> idx,
         columns |-> cols,
         data    |-> [c \in Range(cols) |->
                        [i \in 1..Len(idx) |->
                            IF \E r \in rows : r.Ticker = c /\ r.Date = idx[i]
                            THEN (CHOOSE r \in rows : r.Ticker = c /\ r.Date = idx[i]).Close
                            ELSE NaN]]]

\* the total return between the first index dates on or after start and end
calculate_total_return_snapped(df, sd, ed) ==
    LET from == {i \in 1..NRows(df) : df.index[i] >= sd}
        upto == {i \in 1..NRows(df) : df.index[i] >= ed}
    IN  IF from = {} \/ upto = {} THEN Raise("KeyError")
        ELSE LET si == CHOOSE i \in from : \A j \in from : i <= j
                 ei == CHOOSE i \in upto : \A j \in upto : i <= j
             IN  Ret([c \in Keys(df) |->
                        FMul(FSub(FDiv(df.data[c][ei], df.data[c][si]), Int2F(1)),
                             Int2F(100))])

\* the total return as a fraction, not in percent
calculate_total_return_fraction(df, sd, ed) ==
    IF sd \notin Range(df.index) \/ ed \notin Range(df.index) THEN Raise("KeyError")
    ELSE LET si == CHOOSE i \in 1..NRows(df) : df.index[i] = sd
             ei == CHOOSE i \in 1..NRows(df) : df.index[i] = ed
         IN  Ret([c \in Keys(df) |->
                    FSub(FDiv(df.data[c][ei], df.data[c][si]), Int2F(1))])

\* prices_df.loc[date] raises KeyError for a date that is not in the index
calculate_total_return(df, sd, ed) ==
    IF sd \notin Range(df.index) \/ ed \notin Range(df.index) THEN Raise("KeyError")
    ELSE LET si == CHOOSE i \in 1..NRows(df) : df.index[i] = sd
             ei == CHOOSE i \in 1..NRows(df) : df.index[i] = ed
         IN  Ret([c \in Keys(df) |->
                    FMul(FSub(FDiv(df.data[c][ei], df.data[c][si]), Int2F(1)),
                         Int2F(100))])

\* a turnover estimate that looks at the data: one over the number of rows
turnover_by_rows(df, rebalance_frequency) ==
    Rat(1, NRows(df) + 1)

calculate_turnover_rate(df, rebalance_frequency) ==
    IF rebalance_frequency = "M" THEN Rat(1, 12)
    ELSE IF rebalance_frequency = "Q" THEN Rat(1, 4)
    ELSE Rat(1, 10)

\* datetime.now(), the default end_date: the last day of the model
Now == CHOOSE d \in DateGrid : \A e \in DateGrid : e <= d

EndDate(ed) == IF ed = <<>> THEN Now ELSE ed[1]

\* the panel the facade loads for a request
LoadedPanel(table, req, sd) ==
    load_portfolio_data(table, req.ticker_list, sd, EndDate(req.end_date))

\* betas against the first instrument of the panel as the market
BetaAgainstFirstInstrument(returns) ==
    IF returns.columns = <<>> THEN << >>
    ELSE calculate_beta(returns, Some(returns.data[returns.columns[1]]))

\* the betas handed to calculate_alpha: a second call of calculate_beta on
\* the Returns Panel of the bundle
AlphaBeta(returns) == calculate_beta(returns, None)

\* the bundle; prices_df.index[0] raises IndexError on the empty panel
calculate_portfolio_metrics(table, req, sd, fm) ==
    LET prices  == LoadedPanel(table, req, sd)
        returns == calculate_returns(prices, fm)
    IN  IF NRows(prices) = 0 THEN Raise("IndexError")
        ELSE LET summary == calculate_performance_summary(prices, sd)
             IN  IF summary.exc # "none" THEN summary
                 ELSE Ret([prices |-> prices,
                           returns |-> returns,
                           total_return |->
                               calculate_total_return(prices, prices.index[1],
                                                      Last(prices.index)).ret,
                           annualized_return |-> calculate_annualized_return(returns),
                           volatility |-> calculate_volatility(returns),
                           beta |-> calculate_beta(returns, None),
                           var_95 |-> calculate_var(returns, confidence_level),
                           sharpe_ratio |-> calculate_sharpe_ratio(returns, risk_free_rate),
                           alpha |-> calculate_alpha(returns, AlphaBeta(returns),
                                                     None, risk_free_rate),
                           turnover_rate |-> calculate_turnover_rate(returns, "M"),
                           performance_summary |-> summary.ret,
                           drawdown |-> calculate_drawdown(prices, fm),
                           correlation_matrix |-> calculate_correlation_matrix(returns)])

----------------------------------------------------------------------------
(* Specification SpecFacade: calculate_portfolio_metrics on a database *)

DBDates == {1826, 1828, 1840}
DBCloses == {Int2F(1), Int2F(2)}

\* UNIQUE(Ticker, Date), Close FLOAT NOT NULL
Tables ==
    {{[Ticker |-> k[1], Date |-> k[2], Close |-> f[k]] : k \in keys} :
        keys \in SUBSET (Range(Tickers) \X DBDates), f \in [Range(Tickers) \X DBDates -> DBCloses]}

TickerLists == {<<"A">>, <<"A", "B">>, <<"B", "A">>}

Requests ==
    {[ticker_list |-> tl, end_date |-> ed] :
        tl \in TickerLists, ed \in {<<>>, <<1828>>}}

InitFacade ==
    /\ fill_method \in FillMethods
    /\ stock_data \in Tables
    /\ prices_df = EmptyDF
    /\ returns_df = EmptyDF
    /\ market_returns = None
    /\ start_date \in {1800, 1828, 1900}
    /\ request = NoRequest
    /\ op = "idle"
    /\ result = Ret(<<>>)
    /\ InitContext

\* load_portfolio_data queries the database once: pd.read_sql(query, conn)
DatabaseRead == <<"read_sql">>

CalculatePortfolioMetrics ==
    \E req \in Requests :
        /\ op = "idle"
        /\ op' = "calculate_portfolio_metrics"
        /\ request' = req
        /\ result' = calculate_portfolio_metrics(stock_data, req, start_date, fill_method)
        /\ calls' = DatabaseRead
        /\ UNCHANGED <<fill_method, stock_data, prices_df, returns_df, market_returns,
                       start_date, rebalance, cache_file>>

\* the aggregator on the panel the facade loads, called as the facade calls it
FacadePerformanceSummary ==
    \E req \in Requests :
        /\ op = "idle"
        /\ op' = "calculate_performance_summary"
        /\ request' = req
        /\ result' = calculate_performance_summary(
                        LoadedPanel(stock_data, req, start_date), start_date)
        /\ UNCHANGED <<context, fill_method, stock_data, prices_df, returns_df, market_returns,
                       start_date>>

\* the loader alone, on the request of a facade call
LoadPortfolioData ==
    \E req \in Requests :
        /\ op = "idle"
        /\ op' = "load_portfolio_data"
        /\ request' = req
        /\ result' = Ret(LoadedPanel(stock_data, req, start_date))
        /\ calls' = DatabaseRead
        /\ UNCHANGED <<fill_method, stock_data, prices_df, returns_df, market_returns,
                       start_date, rebalance, cache_file>>

NextFacade ==
    \/ CalculatePortfolioMetrics
    \/ FacadePerformanceSummary
    \/ LoadPortfolioData
    \/ Discard

SpecFacade == InitFacade /\ [][NextFacade]_vars

\* C26: in the bundle, whenever the supplied start date is not later than
\* the panel's first date and the panel has at least 2 rows, there is an
\* Inception row in performance_summary and it equals total_return rounded
\* to 2 decimals for every instrument
C26_InceptionIsTotalReturn ==
    (op = "calculate_portfolio_metrics" /\ result.exc = "none") =>
        LET b == result.ret
        IN  (NRows(b.prices) >= 2 /\ start_date <= b.prices.index[1]) =>
                /\ RowsLabelled(b.performance_summary, "Inception") # {}
                /\ \A i \in RowsLabelled(b.performance_summary, "Inception") :
                     /\ DOMAIN b.performance_summary[i].values = Keys(b.prices)
                     /\ \A c \in Keys(b.prices) :
                          b.performance_summary[i].values[c] = Round2(b.total_return[c])

\* a bundle over two instruments and three dates whose Inception row holds a
\* gain and a loss
C26_Witness ==
    /\ op = "calculate_portfolio_metrics"
    /\ result.exc = "none"
    /\ NRows(result.ret.prices) = 3
    /\ Len(result.ret.prices.columns) = 2
    /\ \E i \in RowsLabelled(result.ret.performance_summary, "Inception") :
        /\ result.ret.performance_summary[i].values["A"] = Int2F(100)
        /\ result.ret.performance_summary[i].values["B"] = Int2F(-50)
        /\ result.ret.total_return["A"] = Int2F(100)

\* C22: the metric computations perform no I/O: the Price Panel is loaded by
\* an external collaborator before the core runs and passed in as a value; the
\* facade never fetches it itself.
C22_FacadeNeverFetches ==
    op = "calculate_portfolio_metrics" => calls = <<>>

Stored(table, req, sd) ==
    {t \in Range(req.ticker_list) :
        Query(table, <<t>>, sd, EndDate(req.end_date)) # {}}

\* C14: the Price Panel produced by load_portfolio_data has its instrument
\* columns in the order of the caller-supplied ticker list, for every ticker
\* list, the lists that are not alphabetically sorted included (stated for
\* the requests whose tickers all have rows in the queried range).
C14_ColumnsInCallerOrder ==
    (/\ op = "load_portfolio_data"
     /\ Stored(stock_data, request, start_date) = Range(request.ticker_list)) =>
        result.ret.columns = request.ticker_list

\* the columns are the stored tickers of the list in alphabetical order
C14_ColumnsAlphabetical ==
    op = "load_portfolio_data" =>
        result.ret.columns =
            SelectIdx(Tickers, {i \in 1..Len(Tickers) :
                                   Tickers[i] \in Stored(stock_data, request, start_date)}, 1)

----------------------------------------------------------------------------
(* Specification SpecTotalReturn: calculate_total_return on a panel *)

\* the end date of the call is kept in request
CalculateTotalReturn ==
    \E ed \in DateGrid :
        /\ op = "idle"
        /\ op' = "calculate_total_return"
        /\ request' = [ticker_list |-> <<>>, end_date |-> <<ed>>]
        /\ result' = calculate_total_return(prices_df, start_date, ed)
        /\ UNCHANGED <<context, fill_method, stock_data, prices_df, returns_df, market_returns,
                       start_date>>

NextTotalReturn == CalculateTotalReturn \/ Discard

SpecTotalReturn == InitSummary /\ [][NextTotalReturn]_vars

\* C18: calculate_total_return(prices, start, end) returns
\* (price[end]/price[start] - 1) * 100 per instrument when start and end are
\* dates present in the panel index; the dates are looked up exactly, with no
\* snapping to a nearby date (a date that is not in the index raises KeyError).
C18_TotalReturnExactDates ==
    op = "calculate_total_return" =>
        LET ed == request.end_date[1]
        IN  IF start_date \in Range(prices_df.index) /\ ed \in Range(prices_df.index)
            THEN /\ result.exc = "none"
                 /\ DOMAIN result.ret = Keys(prices_df)
                 /\ \A c \in Keys(prices_df) :
                      result.ret[c] =
                        FMul(FSub(FDiv(prices_df.data[c][RowOf(prices_df, ed)],
                                       prices_df.data[c][RowOf(prices_df, start_date)]),
                                  Int2F(1)), Int2F(100))
            ELSE result.exc = "KeyError"

\* start and end are the second and third date of the index and a price
\* changes between them
C18_Witness ==
    /\ op = "calculate_total_return"
    /\ NRows(prices_df) = 3
    /\ start_date = prices_df.index[2]
    /\ request.end_date = <<prices_df.index[3]>>
    /\ result.exc = "none"
    /\ \E c \in Keys(prices_df) : result.ret[c] = Int2F(100)

\* C8: for a degenerate Price Panel (empty, or a single row) the facade and
\* the aggregator it calls complete without raising.
C8_DegeneratePanelNeverRaises ==
    (/\ op \in {"calculate_portfolio_metrics", "calculate_performance_summary"}
     /\ NRows(LoadedPanel(stock_data, request, start_date)) <= 1) =>
        result.exc = "none"

\* the same statement for the single-row panels alone
C8_SingleRowNeverRaises ==
    (/\ op \in {"calculate_portfolio_metrics", "calculate_performance_summary"}
     /\ NRows(LoadedPanel(stock_data, request, start_date)) = 1) =>
        result.exc = "none" /\
        (op = "calculate_portfolio_metrics" => result.ret.performance_summary = <<>>)

----------------------------------------------------------------------------
(* Beta in rounded arithmetic.  Series.cov and Series.var reach the same     *)
(* sum of squares by different last steps: numpy.cov multiplies it by the    *)
(* rounded reciprocal 1 / (n - 1), pandas' nanvar divides it by n - 1.  The  *)
(* exact arithmetic above cannot tell the two apart, so the beta of a series *)
(* against itself is modelled here in binary floating point with round to    *)
(* nearest, ties to even, every operation rounded.  float64 has 53           *)
(* significant bits; the model keeps MantissaBits of them and no exponent    *)
(* limit.                                                                    *)

MantissaBits == 7
SelfBetaRows == 4

RECURSIVE Pow2(_)
Pow2(e) == IF e = 0 THEN 1 ELSE 2 * Pow2(e - 1)

\* n / d rounded to an integer, ties to even
RoundHalfEven(n, d) ==
    LET q == n \div d
        r == n - q * d
    IN  IF 2 * r > d \/ (2 * r = d /\ q % 2 = 1) THEN q + 1 ELSE q

RECURSIVE FlPos(_, _)
\* the float nearest to n / d > 0: scale into [2^(p-1), 2^p), round, scale back
FlPos(n, d) ==
    IF n < d * Pow2(MantissaBits - 1) THEN FMul(Rat(1, 2), FlPos(2 * n, d))
    ELSE IF n >= d * Pow2(MantissaBits) THEN FMul(Int2F(2), FlPos(n, 2 * d))
    ELSE Int2F(RoundHalfEven(n, d))

\* the float nearest to x
Fl(x) ==
    IF ~IsNum(x) \/ x.n = 0 THEN x
    ELSE IF x.n < 0 THEN FNeg(FlPos(-x.n, x.d))
    ELSE FlPos(x.n, x.d)

RECURSIVE FlSum(_, _)
\* the running sum acc + s[1] + s[2] + ..., rounded after every addition
FlSum(s, acc) == IF s = <<>> THEN acc ELSE FlSum(Tail(s), Fl(FAdd(acc, s[1])))

FlMean(s) == Fl(FDiv(FlSum(s, Int2F(0)), Int2F(Len(s))))

\* Series.var(), pandas nanops.nanvar: sum((avg - x) ** 2) / (n - 1)
RoundedVar(x) ==
    IF Len(x) < 2 THEN NaN
    ELSE LET avg == FlMean(x)
             sqr == [i \in 1..Len(x) |-> Fl(FSq(Fl(FSub(avg, x[i]))))]
         IN  Fl(FDiv(FlSum(sqr, Int2F(0)), Int2F(Len(x) - 1)))

\* Series.cov(other), numpy.cov: dot(x - avg, y - avg) * (1 / (n - 1))
RoundedCov(x, y) ==
    IF Len(x) < 2 THEN NaN
    ELSE LET ax == FlMean(x)
             ay == FlMean(y)
             prod == [i \in 1..Len(x) |->
                        Fl(FMul(Fl(FSub(x[i], ax)), Fl(FSub(y[i], ay))))]
             reciprocal == Fl(FDiv(Int2F(1), Int2F(Len(x) - 1)))
         IN  Fl(FMul(FlSum(prod, Int2F(0)), reciprocal))

\* returns_df.mean(axis=1), every operation rounded
RoundedRowMean(df) ==
    [r \in 1..NRows(df) |->
        FlMean([i \in 1..Len(df.columns) |-> df.data[df.columns[i]][r]])]

RoundedBenchmark(df, m) == IF m.none THEN RoundedRowMean(df) ELSE m.s

\* a beta that divides the covariance by the variance of the instrument
calculate_beta_own_variance(df, m) ==
    [c \in Keys(df) |->
        LET covariance == RoundedCov(df.data[c], RoundedBenchmark(df, m))
            variance == RoundedVar(df.data[c])
        IN  IF BetaGuard(variance) THEN Fl(FDiv(covariance, variance)) ELSE Int2F(1)]

\* calculate_beta, every operation rounded
calculate_beta_rounded(df, m) ==
    LET mr == RoundedBenchmark(df, m)
    IN  [c \in Keys(df) |->
            LET covariance == RoundedCov(df.data[c], mr)
                market_variance == RoundedVar(mr)
            IN  IF BetaGuard(market_variance)
                THEN Fl(FDiv(covariance, market_variance))
                ELSE Int2F(1)]

\* daily returns that are floats whatever the precision
RoundedReturns == {Rat(-1, 2), Int2F(0), Rat(1, 2), Int2F(1)}

\* the Returns Panels of one instrument
SeriesPanels ==
    {[index |-> DayIndex(Len(s)), columns |-> <<"A">>, data |-> [c \in {"A"} |-> s]] :
        s \in UNION {[1..n -> RoundedReturns] : n \in 0..SelfBetaRows}}

InitRounded ==
    /\ fill_method = "pad"
    /\ stock_data = {}
    /\ prices_df = EmptyDF
    /\ returns_df \in SeriesPanels
    /\ market_returns = None
    /\ start_date = 0
    /\ request = NoRequest
    /\ op = "idle"
    /\ result = Ret(<<>>)
    /\ InitContext

\* calculate_beta with the series of an instrument as the benchmark
CalculateBetaAgainstItself ==
    \E c \in Keys(returns_df) :
        /\ op = "idle"
        /\ op' = "calculate_beta"
        /\ market_returns' = Some(returns_df.data[c])
        /\ result' = Ret(calculate_beta_rounded(returns_df, Some(returns_df.data[c])))
        /\ UNCHANGED <<context, fill_method, stock_data, prices_df, returns_df, start_date, request>>

NextRounded == CalculateBetaAgainstItself \/ Discard

SpecRounded == InitRounded /\ [][NextRounded]_vars

\* C17: for any instrument whose return series is supplied as its own
\* benchmark, calculate_beta returns exactly 1.0 for that instrument: as
\* covariance/variance when the series varies, and through the fallback when
\* its variance is 0.
C17_SelfBetaExactlyOne ==
    (op = "calculate_beta" /\ ~market_returns.none) =>
        \A c \in Keys(returns_df) :
            market_returns.s = returns_df.data[c] => result.ret[c] = Int2F(1)

\* the same statement for the series of at most 3 rows, where n - 1 is a
\* power of two and its reciprocal is a float
C17_SelfBetaShortSeries ==
    NRows(returns_df) <= 3 => C17_SelfBetaExactlyOne

\* the self-beta is 1.0 within two units in the last place
C17_SelfBetaNearOne ==
    (op = "calculate_beta" /\ ~market_returns.none) =>
        \A c \in Keys(returns_df) :
            market_returns.s = returns_df.data[c] =>
                /\ FLe(Rat(Pow2(MantissaBits - 1) - 2, Pow2(MantissaBits - 1)), result.ret[c])
                /\ FLe(result.ret[c], Rat(Pow2(MantissaBits - 1) + 2, Pow2(MantissaBits - 1)))

(***************************************************************************)
(* The turnover estimate: calculate_turnover_rate over every Returns Panel *)
(* and a few rebalance labels.                                             *)
(***************************************************************************)

\* the labels a caller passes: the two the code names and some it does not
Labels == {"M", "Q", "W", "Y", "m"}

CalculateTurnoverRate ==
    /\ op = "idle"
    /\ \E label \in Labels :
        /\ rebalance' = label
        /\ result' = Ret(calculate_turnover_rate(returns_df, label))
    /\ op' = "calculate_turnover_rate"
    /\ UNCHANGED <<fill_method, stock_data, prices_df, returns_df, market_returns,
                   start_date, request, calls, cache_file>>

NextTurnover ==
    \/ CalculateTurnoverRate
    \/ Discard

SpecTurnover == InitMetrics /\ [][NextTurnover]_vars

\* the constant the label alone selects
TurnoverOfLabel(label) ==
    CASE label = "M" -> Rat(1, 12)
      [] label = "Q" -> Rat(1, 4)
      [] OTHER -> Rat(1, 10)

InitCore ==
    /\ fill_method \in FillMethods
    /\ stock_data = {}
    /\ \E n \in 0..(MaxRows - 1) : \E cols \in ColumnsOn(DayIndex(n)) :
            prices_df \in PricePanelsOf(DayIndex(n), cols, PriceCells)
    /\ returns_df = calculate_returns(prices_df, fill_method)
    /\ market_returns = None
    /\ start_date \in {0, 1}
    /\ request = NoRequest
    /\ op = "idle"
    /\ result = Ret(<<>>)
    /\ InitContext

NextCore ==
    \/ CalculateReturns
    \/ CalculateDrawdown
    \/ CalculateAnnualizedReturn
    \/ CalculateVolatility
    \/ CalculateBeta
    \/ CalculateVar
    \/ CalculateSharpeRatio
    \/ CalculateAlpha
    \/ CalculateCorrelationMatrix
    \/ CalculateTurnoverRate
    \/ CalculatePerformanceSummary
    \/ Discard

SpecCore == InitCore /\ [][NextCore]_vars

\* C23: no computation of the core modifies its inputs: whatever the calls
\* made, the Price Panel and the Returns Panel passed in stay as they were,
\* and a call leaves nothing behind but its result
C23_InputsNeverModified ==
    [][/\ prices_df' = prices_df
       /\ returns_df' = returns_df
       /\ fill_method' = fill_method
       /\ start_date' = start_date]_vars

\* a drawdown call has returned a panel that is not the caller's, which is
\* still the full panel of two instruments it was
C23_Witness ==
    /\ op = "calculate_drawdown"
    /\ NRows(prices_df) = MaxRows - 1
    /\ Len(prices_df.columns) = 2
    /\ result = Ret(calculate_drawdown(prices_df, fill_method))
    /\ result.ret # prices_df

(***************************************************************************)
(* The annualized return in rounded arithmetic: a caller scales every      *)
(* daily return of a series by a factor and annualizes the scaled series.  *)
(***************************************************************************)

\* an annualized return that compounds the mean daily return over two half
\* years: ((1 + mean) ** 2 - 1) * 126 * 100
annualized_return_compounded(df) ==
    [c \in Keys(df) |->
        IF Len(df.data[c]) = 0 THEN NaN
        ELSE LET growth == Fl(FSq(Fl(FAdd(Int2F(1), FlMean(df.data[c])))))
             IN  Fl(FMul(Fl(FMul(Fl(FSub(growth, Int2F(1))), Int2F(126))), Int2F(100)))]

\* returns_df.mean() * trading_days * 100, every operation rounded
calculate_annualized_return_rounded(df) ==
    [c \in Keys(df) |->
        IF Len(df.data[c]) = 0 THEN NaN
        ELSE Fl(FMul(Fl(FMul(FlMean(df.data[c]), Int2F(trading_days))), Int2F(100)))]

\* returns_df * k
Scaled(df, k) ==
    [df EXCEPT !.data = [c \in DOMAIN df.data |->
        [i \in 1..NRows(df) |-> Fl(FMul(df.data[c][i], k))]]]

\* the factors: powers of two of either sign, and the floats 3 and 0.1
PowersOfTwo == {Int2F(-1), Rat(1, 2), Int2F(2)}
Factors == PowersOfTwo \cup {Int2F(3), Fl(Rat(1, 10))}

\* calculate_annualized_return(returns_df * k)
AnnualizeScaled ==
    /\ op = "idle"
    /\ \E k \in Factors :
        /\ request' = [factor |-> k]
        /\ result' = Ret(calculate_annualized_return_rounded(Scaled(returns_df, k)))
    /\ op' = "calculate_annualized_return"
    /\ UNCHANGED <<context, fill_method, stock_data, prices_df, returns_df, market_returns,
                   start_date>>

NextScaled == AnnualizeScaled \/ Discard

SpecScaled == InitRounded /\ [][NextScaled]_vars

\* k times the annualized return of the unscaled series, as a float
ScaledAnnualized(c) ==
    Fl(FMul(request.factor, calculate_annualized_return_rounded(returns_df)[c]))

\* C24: scaling every daily return of a Returns Panel by a constant k scales
\* the annualized return of every instrument by exactly k
C24_ScalesExactly ==
    (op = "calculate_annualized_return" /\ NRows(returns_df) > 0) =>
        \A c \in Keys(returns_df) : result.ret[c] = ScaledAnnualized(c)

FAbs(x) == IF IsNum(x) /\ x.n < 0 THEN FNeg(x) ELSE x

\* the rounding error 2n + 8 roundings can leave on 252 * 100 * k * mean(|r|)
RoundingSlack(c) ==
    LET n == NRows(returns_df)
        size == FMul(FMul(Int2F(trading_days * 100), FAbs(request.factor)),
                     Mean([i \in 1..n |-> FAbs(returns_df.data[c][i])]))
    IN  FMul(Rat(2 * n + 8, Pow2(MantissaBits)), size)

\* C24 as it holds: the scaling is exact when k is a power of two, and for
\* any other k the two values differ by rounding error only
C24_ScalesUpToRounding ==
    (op = "calculate_annualized_return" /\ NRows(returns_df) > 0) =>
        \A c \in Keys(returns_df) :
            /\ request.factor \in PowersOfTwo => result.ret[c] = ScaledAnnualized(c)
            /\ FLe(FAbs(FSub(result.ret[c], ScaledAnnualized(c))), RoundingSlack(c))

\* a series of mixed signs scaled by a factor that is not a power of two,
\* where the two values differ, and by no more than the rounding error
C24_Witness ==
    /\ op = "calculate_annualized_return"
    /\ request.factor \notin PowersOfTwo
    /\ NRows(returns_df) = SelfBetaRows
    /\ \E c \in Keys(returns_df) :
        /\ \E i \in 1..NRows(returns_df) : returns_df.data[c][i].n < 0
        /\ result.ret[c] # ScaledAnnualized(c)
        /\ FLe(FAbs(FSub(result.ret[c], ScaledAnnualized(c))), RoundingSlack(c))

(***************************************************************************)
(* Beta against the default benchmark in rounded arithmetic, over the      *)
(* Returns Panels of one and two instruments.                              *)
(***************************************************************************)

CalculateBetaRounded ==
    /\ op = "idle"
    /\ op' = "calculate_beta"
    /\ result' = Ret(calculate_beta_rounded(returns_df, None))
    /\ UNCHANGED <<context, fill_method, stock_data, prices_df, returns_df, market_returns,
                   start_date, request>>

NextRoundedBeta == CalculateBetaRounded \/ Discard

SpecRoundedBeta == InitMetrics /\ [][NextRoundedBeta]_vars

\* betas.sum(): the betas of the result added up, every addition rounded
BetaTotal ==
    FlSum([i \in 1..Len(returns_df.columns) |-> result.ret[returns_df.columns[i]]], Int2F(0))

\* the default benchmark was used and its variance, as computed, is positive
DefaultBenchmarkVaries ==
    /\ op = "calculate_beta"
    /\ market_returns.none
    /\ BetaGuard(RoundedVar(RoundedRowMean(returns_df)))

DatabaseStates == {"up", "down", "query_fails"}

ApiRequests ==
    {[ticker_list |-> r.ticker_list, end_date |-> r.end_date, database |-> d] :
        r \in Requests, d \in DatabaseStates}

\* the body of a handler's try block around a computation that returns or
\* raises `outcome`: the calls made on the connection and the response
Handle(database, outcome) ==
    IF database = "down"
    THEN [calls |-> <<>>, response |-> [status |-> 500, error |-> "pyodbc.Error"]]
    ELSE IF database = "query_fails"
    THEN [calls |-> <<"connect", "read_sql">>,
          response |-> [status |-> 500, error |-> "DatabaseError"]]
    ELSE IF outcome.exc # "none"
    THEN [calls |-> <<"connect", "read_sql">>,
          response |-> [status |-> 500, error |-> outcome.exc]]
    ELSE [calls |-> <<"connect", "read_sql", "close">>,
          response |-> [status |-> 200, error |-> "none"]]

GetPortfolioMetrics ==
    /\ op = "idle"
    /\ \E req \in ApiRequests :
        LET done == Handle(req.database,
                           calculate_portfolio_metrics(stock_data, req, start_date, fill_method))
        IN  /\ request' = req
            /\ calls' = done.calls
            /\ result' = Ret(done.response)
    /\ op' = "get_portfolio_metrics"
    /\ UNCHANGED <<fill_method, stock_data, prices_df, returns_df, market_returns,
                   start_date, rebalance, cache_file>>

GetPrices ==
    /\ op = "idle"
    /\ \E req \in ApiRequests :
        LET done == Handle(req.database, Ret(LoadedPanel(stock_data, req, start_date)))
        IN  /\ request' = req
            /\ calls' = done.calls
            /\ result' = Ret(done.response)
    /\ op' = "get_prices"
    /\ UNCHANGED <<fill_method, stock_data, prices_df, returns_df, market_returns,
                   start_date, rebalance, cache_file>>

GetReturns ==
    /\ op = "idle"
    /\ \E req \in ApiRequests :
        LET done == Handle(req.database,
                           Ret(calculate_returns(LoadedPanel(stock_data, req, start_date),
                                                 fill_method)))
        IN  /\ request' = req
            /\ calls' = done.calls
            /\ result' = Ret(done.response)
    /\ op' = "get_returns"
    /\ UNCHANGED <<fill_method, stock_data, prices_df, returns_df, market_returns,
                   start_date, rebalance, cache_file>>

GetDrawdown ==
    /\ op = "idle"
    /\ \E req \in ApiRequests :
        LET done == Handle(req.database,
                           Ret(calculate_drawdown(LoadedPanel(stock_data, req, start_date),
                                                  fill_method)))
        IN  /\ request' = req
            /\ calls' = done.calls
            /\ result' = Ret(done.response)
    /\ op' = "get_drawdown"
    /\ UNCHANGED <<fill_method, stock_data, prices_df, returns_df, market_returns,
                   start_date, rebalance, cache_file>>

NextApi ==
    \/ GetPortfolioMetrics
    \/ GetPrices
    \/ GetReturns
    \/ GetDrawdown
    \/ Discard

SpecApi == InitFacade /\ [][NextApi]_vars

Handlers == {"get_portfolio_metrics", "get_prices", "get_returns", "get_drawdown"}

\* C27: every database connection opened by an API handler is closed before
\* the handler returns, on the success path and on every path where loading
\* or computing raises and the handler answers HTTP 500
C27_ConnectionAlwaysClosed ==
    (op \in Handlers /\ "connect" \in Range(calls)) => Last(calls) = "close"

\* what holds instead: the connection is closed exactly when the handler
\* answers 200
C27_ClosedOnSuccessOnly ==
    (op \in Handlers /\ "connect" \in Range(calls)) =>
        (Last(calls) = "close" <=> result.ret.status = 200)

(***************************************************************************)
(* The store of the ETL pipeline: store_data_in_azure merges the records   *)
(* of a frame into stock_data inside one transaction (pyodbc connections   *)
(* are opened with autocommit off).  A row keeps the columns the loader    *)
(* reads: Ticker, Date, Close.                                             *)
(***************************************************************************)

\* the longest frame stored
MaxRecords == 2

StoreDates == {1826, 1828}

StoreRows == {[Ticker |-> "A", Date |-> d, Close |-> c] : d \in StoreDates, c \in DBCloses}

\* the tables with at most one row per (Ticker, Date)
StoreTables ==
    {t \in SUBSET StoreRows : \A r1, r2 \in t : r1.Date = r2.Date => r1 = r2}

\* the frames passed in: any rows in any order, duplicates of a key included
RecordLists == UNION {[1..n -> StoreRows] : n \in 0..MaxRecords}

\* MERGE ... ON target.Ticker = source.Ticker AND target.Date = source.Date:
\* update the matching row, else insert
Merge(table, row) ==
    {r \in table : ~(r.Ticker = row.Ticker /\ r.Date = row.Date)} \cup {row}

RECURSIVE MergeAll(_, _)
MergeAll(table, records) ==
    IF records = <<>> THEN table
    ELSE MergeAll(Merge(table, records[1]), Tail(records))

Executes(n) == [i \in 1..n |-> "execute"]

\* a store in which every MERGE is committed as soon as it is executed
store_data_autocommit(table, records, fails_at) ==
    IF records = <<>>
    THEN [table |-> table, calls |-> <<>>, outcome |-> Ret(<<>>)]
    ELSE IF fails_at = 0
    THEN [table   |-> MergeAll(table, records),
          calls   |-> <<"cursor">> \o Executes(Len(records)) \o <<"commit", "cursor.close">>,
          outcome |-> Ret(<<>>)]
    ELSE [table   |-> MergeAll(table, SubSeq(records, 1, fails_at - 1)),
          calls   |-> <<"cursor">> \o Executes(fails_at) \o <<"rollback", "cursor.close">>,
          outcome |-> Raise("pyodbc.Error")]

\* store_data_in_azure(df, conn) on a database holding `table`, where the
\* MERGE of record number fails_at raises (0: none does): the table
\* afterwards, the calls on the connection and the cursor, and the outcome
store_data_in_azure(table, records, fails_at) ==
    IF records = <<>>
    THEN [table |-> table, calls |-> <<>>, outcome |-> Ret(<<>>)]
    ELSE LET pending == MergeAll(table, SubSeq(records, 1,
                            IF fails_at = 0 THEN Len(records) ELSE fails_at - 1))
         IN  IF fails_at = 0
             THEN [table   |-> pending,
                   calls   |-> <<"cursor">> \o Executes(Len(records))
                                   \o <<"commit", "cursor.close">>,
                   outcome |-> Ret(<<>>)]
             ELSE [table   |-> table,
                   calls   |-> <<"cursor">> \o Executes(fails_at)
                                   \o <<"rollback", "cursor.close">>,
                   outcome |-> Raise("pyodbc.Error")]

InitStore ==
    /\ fill_method = "pad"
    /\ stock_data \in StoreTables
    /\ prices_df = EmptyDF
    /\ returns_df = EmptyDF
    /\ market_returns = None
    /\ start_date = 0
    /\ request = NoRequest
    /\ op = "idle"
    /\ result = Ret(<<>>)
    /\ InitContext

StoreDataInAzure ==
    /\ op = "idle"
    /\ \E records \in RecordLists : \E fails_at \in 0..Len(records) :
        LET done == store_data_in_azure(stock_data, records, fails_at)
        IN  /\ request' = [records |-> records, fails_at |-> fails_at]
            /\ stock_data' = done.table
            /\ calls' = done.calls
            /\ result' = done.outcome
    /\ op' = "store_data_in_azure"
    /\ UNCHANGED <<fill_method, prices_df, returns_df, market_returns, start_date,
                   rebalance, cache_file>>

NextStore == StoreDataInAzure \/ Discard

SpecStore == InitStore /\ [][NextStore]_vars

\* C28: store_data_in_azure is all-or-nothing per call: it commits only
\* after every record's MERGE succeeded; if any MERGE fails it rolls back,
\* commits nothing and re-raises; on both outcomes the cursor is closed; for
\* an empty input it touches neither the cursor nor the connection
C28_AllOrNothing ==
    [][op' = "store_data_in_azure" =>
        LET records == request'.records
            n == Len(records)
        IN  /\ records = <<>> =>
                /\ calls' = <<>>
                /\ stock_data' = stock_data
                /\ result'.exc = "none"
            /\ (records # <<>> /\ request'.fails_at = 0) =>
                /\ calls' = <<"cursor">> \o Executes(n) \o <<"commit", "cursor.close">>
                /\ stock_data' = MergeAll(stock_data, records)
                /\ result'.exc = "none"
            /\ request'.fails_at > 0 =>
                /\ "commit" \notin Range(calls')
                /\ "rollback" \in Range(calls')
                /\ Last(calls') = "cursor.close"
                /\ stock_data' = stock_data
                /\ result'.exc # "none"]_vars

\* the second MERGE of a frame failed after the first had changed a row of
\* the table inside the transaction
C28_Witness ==
    /\ op = "store_data_in_azure"
    /\ request.fails_at = 2
    /\ Merge(stock_data, request.records[1]) # stock_data
    /\ stock_data # {}
    /\ result.exc # "none"
    /\ calls = <<"cursor", "execute", "execute", "rollback", "cursor.close">>

(***************************************************************************)
(* The launcher: the forecast cache file, should_rerun_model and main.     *)
(*                                                                         *)
(* The content of the cache file is what json.load makes of it: a JSON     *)
(* value with its type and its members (the keys of an object, the items   *)
(* of an array, the words of a string), or no value at all when the file   *)
(* cannot be read or is not JSON.                                          *)
(***************************************************************************)

Words == {"predictions", "backtest_results"}

JsonValues ==
    {[type |-> t, members |-> m] : t \in {"object", "array", "string"}, m \in SUBSET Words}
        \cup {[type |-> t, members |-> {}] : t \in {"null", "false", "true", "zero", "number"}}

Unparsed == {[type |-> t, members |-> {}] : t \in {"unreadable", "invalid"}}

\* the age of the file in days; 1 is a file exactly one day old
AgesInDays == {0, 1, 2}

CacheFiles ==
    {NoFile} \cup
    {[exists |-> TRUE, age_days |-> a, content |-> c] :
        a \in AgesInDays, c \in JsonValues \cup Unparsed}

\* bool(cached_data)
Truthy(v) ==
    CASE v.type \in {"object", "array", "string"} -> v.members # {}
      [] v.type \in {"true", "number"} -> TRUE
      [] OTHER -> FALSE

\* should_rerun_model() that raises what reading the cache raises
should_rerun_model_unguarded(file) ==
    IF ~file.exists THEN Ret(TRUE)
    ELSE IF file.age_days > 1 THEN Ret(TRUE)
    ELSE IF file.content.type = "unreadable" THEN Raise("OSError")
    ELSE IF file.content.type = "invalid" THEN Raise("JSONDecodeError")
    ELSE IF ~Truthy(file.content) THEN Ret(TRUE)
    ELSE IF file.content.type \in {"true", "number"} THEN Raise("TypeError")
    ELSE Ret("predictions" \notin file.content.members)

\* should_rerun_model(): "predictions" not in cached_data is a key test on
\* an object, an item test on an array, a substring test on a string, and
\* raises TypeError on a number or a boolean; every exception raised inside
\* the try block is answered with True
should_rerun_model(file) ==
    LET tried == should_rerun_model_unguarded(file)
    IN  IF tried.exc # "none" THEN Ret(TRUE) ELSE tried

\* what run_model does: it returns True after writing the cache, or False
\* after an exception raised before or while writing it
ModelRuns == {"ok", "fails", "fails_writing"}

FreshCache == [exists |-> TRUE, age_days |-> 0, content |-> [type |-> "object", members |-> Words]]

\* the cache file after run_model
CacheAfter(file, model) ==
    CASE model = "ok" -> FreshCache
      [] model = "fails_writing" ->
            [exists |-> TRUE, age_days |-> 0, content |-> [type |-> "invalid", members |-> {}]]
      [] OTHER -> file

\* a main that launches the frontend whatever run_model returned
main_ignoring_model(deps_ok, rerun, model) ==
    IF ~deps_ok THEN <<"check_dependencies">>
    ELSE IF rerun
         THEN <<"check_dependencies", "should_rerun_model", "run_model", "launch_frontend">>
         ELSE <<"check_dependencies", "should_rerun_model", "launch_frontend">>

\* main(): the functions it calls, in order
main(deps_ok, rerun, model) ==
    IF ~deps_ok THEN <<"check_dependencies">>
    ELSE IF rerun
         THEN IF model = "ok"
              THEN <<"check_dependencies", "should_rerun_model", "run_model", "launch_frontend">>
              ELSE <<"check_dependencies", "should_rerun_model", "run_model">>
         ELSE <<"check_dependencies", "should_rerun_model", "launch_frontend">>

InitLauncher ==
    /\ fill_method = "pad"
    /\ stock_data = {}
    /\ prices_df = EmptyDF
    /\ returns_df = EmptyDF
    /\ market_returns = None
    /\ start_date = 0
    /\ request = NoRequest
    /\ op = "idle"
    /\ result = Ret(<<>>)
    /\ rebalance = "M"
    /\ calls = <<>>
    /\ cache_file \in CacheFiles

ShouldRerunModel ==
    /\ op = "idle"
    /\ op' = "should_rerun_model"
    /\ result' = should_rerun_model(cache_file)
    /\ UNCHANGED inputs

Main ==
    /\ op = "idle"
    /\ \E deps_ok \in BOOLEAN : \E model \in ModelRuns :
        LET trace == main(deps_ok, should_rerun_model(cache_file).ret, model)
        IN  /\ request' = [deps_ok |-> deps_ok, model |-> model]
            /\ calls' = trace
            /\ cache_file' = IF "run_model" \in Range(trace)
                             THEN CacheAfter(cache_file, model)
                             ELSE cache_file
    /\ op' = "main"
    /\ result' = Ret(<<>>)
    /\ UNCHANGED <<fill_method, stock_data, prices_df, returns_df, market_returns,
                   start_date, rebalance>>

NextLauncher ==
    \/ ShouldRerunModel
    \/ Main
    \/ Discard

SpecLauncher == InitLauncher /\ [][NextLauncher]_vars

\* the place of a step in the launch sequence
StepRank(step) ==
    CASE step = "check_dependencies" -> 1
      [] step = "should_rerun_model" -> 2
      [] step = "run_model" -> 3
      [] step = "launch_frontend" -> 4

\* C29: in main the steps run strictly in the order dependency check, cache
\* check / model run, frontend launch; the frontend is launched only if the
\* dependency check succeeded and either the cache was accepted or run_model
\* returned True; run_model is never called when the cache is accepted
C29_LaunchSequence ==
    [][op' = "main" =>
        LET accepted == ~should_rerun_model(cache_file).ret
        IN  /\ calls'[1] = "check_dependencies"
            /\ \A i \in 2..Len(calls') : StepRank(calls'[i - 1]) < StepRank(calls'[i])
            /\ "launch_frontend" \in Range(calls') =>
                    /\ request'.deps_ok
                    /\ accepted \/ request'.model = "ok"
                    /\ "should_rerun_model" \in Range(calls')
            /\ accepted => "run_model" \notin Range(calls')
            /\ "run_model" \in Range(calls') => "should_rerun_model" \in Range(calls')]_vars

\* the cache was rejected, the model ran and wrote it, the frontend started
C29_Witness ==
    /\ op = "main"
    /\ request.model = "ok"
    /\ calls = <<"check_dependencies", "should_rerun_model", "run_model", "launch_frontend">>
    /\ cache_file = FreshCache

\* the cache file is there, at most 1 day old, and holds a non-empty JSON
\* object with the key "predictions"
ValidCache(file) ==
    /\ file.exists
    /\ file.age_days <= 1
    /\ file.content.type = "object"
    /\ "predictions" \in file.content.members

\* C30: should_rerun_model returns False only when the cache file exists, is
\* at most 1 day old, parses as JSON and is a non-empty object containing the
\* key "predictions"; in every other case, any read error included, it
\* returns True, and it never raises
C30_FalseOnlyForValidCache ==
    op = "should_rerun_model" =>
        /\ result.exc = "none"
        /\ result.ret = ~ValidCache(cache_file)

\* what holds instead: False for every fresh cache whose JSON value is an
\* object, an array or a string that `in` finds "predictions" in
C30_FalseForAnyContainer ==
    op = "should_rerun_model" =>
        /\ result.exc = "none"
        /\ result.ret =
                ~(/\ cache_file.exists
                  /\ cache_file.age_days <= 1
                  /\ cache_file.content.type \in {"object", "array", "string"}
                  /\ "predictions" \in cache_file.content.members)


=============================================================================
